---------------------------- MODULE Spec2Model ----------------------------
(***************************************************************************)
(* autogcm: staged-diff construction and commit-message generation.        *)
(*                                                                         *)
(* Two programs of the repository are modelled:                            *)
(*   - the greedy variant (src/main.go): generateUnifiedDiff / diffLines,  *)
(*     a hand-written line diff;                                           *)
(*   - the multi-backend variant (the Go program kept in                   *)
(*     src/systemPrompt.md, lines 232-858): main, NewCommitMessageGenerator,*)
(*     getStagedDiff and its helpers, lazyGenerateCommitMessage.           *)
(*                                                                         *)
(* Spec is a whole run of the multi-backend process, SpecDiff the run up to  *)
(* the return of getStagedDiff, SpecGreedy one call of generateUnifiedDiff  *)
(* of the greedy variant, and SpecFn one call of getAddedPatch, of          *)
(* truncatePatch or of the clean-up of a backend's text on its own.         *)
(* SpecTwo is a run of the two-backend variant (src/unnamed/part_004), and  *)
(* SpecGreedyLive follows a call of generateUnifiedDiff to its return.      *)
(*                                                                         *)
(* A Go string is a sequence of one-character strings; NUL stands for the  *)
(* byte 0 and NL for "\n".  len(s) is Len(s).                               *)
(***************************************************************************)
EXTENDS Integers, Sequences, FiniteSets, TLC

VARIABLES
    \* ---- greedy variant (src/main.go), one call of generateUnifiedDiff
    oldContent,   \* argument oldContent
    newContent,   \* argument newContent
    oldIndex,     \* diffLines: oldIndex
    newIndex,     \* diffLines: newIndex
    chunks,       \* diffLines: chunks
    iters,        \* number of iterations of the outer loop of diffLines so far
    gpc,          \* "idle" | "loop" | "done"
    fragment,     \* the string generateUnifiedDiff returns (set when gpc = "done")
    \* ---- multi-backend variant (src/systemPrompt.md 232-858), one process run
    env,          \* environment: GEMINI_API_KEY, GROQ_API_KEY, OPENAI_API_KEY
    status,       \* worktree.Status(): path -> staging status code
    head,         \* last commit: path -> content name, or "absent"
    work,         \* working copy: path -> content name, or "unreadable"
    pc,           \* position of main
    remaining,    \* getStagedDiff: paths the range loop has not visited yet
    diff,         \* getStagedDiff: the bytes.Buffer diff
    written,      \* what each loop iteration did: [path, kind, genLen, len]
    diffResult,   \* "pending", then "returned" or "failed": how getStagedDiff ended
    log,          \* external operations performed so far, in order
    attempts,     \* backend attempts so far: [backend, resp, err, text]
    stdout,       \* text written to standard output
    stderr,       \* diagnostics written to standard error, one per line
    exitCode,     \* -1 while running, then the exit status
    \* ---- one call of a function of the multi-backend variant on its own
    fn,           \* "idle", or the function called
    arg,          \* its string argument (the raw text, the patch)
    size,         \* its int argument (maxSize, maxPreview)
    out           \* [done, text, flag]: whether it returned, and what

varsG == <<oldContent, newContent, oldIndex, newIndex, chunks, iters, gpc, fragment>>
varsM == <<env, status, head, work, pc, remaining, diff, written, diffResult, log,
           attempts, stdout, stderr, exitCode>>
varsF == <<fn, arg, size, out>>

-----------------------------------------------------------------------------
(* Strings *)

NL == "\n"
NUL == "NUL"

\* bounds of the inputs
MaxLen == 3

RECURSIVE StringsUpTo(_, _)
\* all strings over alphabet A of length <= n
StringsUpTo(A, n) ==
    IF n = 0 THEN {<<>>}
    ELSE LET S == StringsUpTo(A, n - 1)
         IN  S \cup {Append(s, c) : s \in {x \in S : Len(x) = n - 1}, c \in A}

Min(S) == CHOOSE x \in S : \A y \in S : x <= y

RECURSIVE SplitFrom(_, _)
\* strings.Split(s, "\n") of the suffix of s that starts at position i
SplitFrom(s, i) ==
    LET nxt == {j \in i..Len(s) : s[j] = NL}
    IN  IF nxt = {} THEN <<SubSeq(s, i, Len(s))>>
        ELSE <<SubSeq(s, i, Min(nxt) - 1)>> \o SplitFrom(s, Min(nxt) + 1)

\* strings.Split(s, "\n"): never empty, Split("") = [""]
Split(s) == SplitFrom(s, 1)

RECURSIVE Concat(_)
\* the concatenation of a sequence of strings
Concat(ss) == IF ss = <<>> THEN <<>> ELSE Head(ss) \o Concat(Tail(ss))

\* the elements of a sequence
Range(seq) == {seq[i] : i \in 1..Len(seq)}

\* strings.HasPrefix(s, p)
HasPrefix(s, p) == Len(s) >= Len(p) /\ SubSeq(s, 1, Len(p)) = p

DigitChars == <<"0", "1", "2", "3", "4", "5", "6", "7", "8", "9">>

RECURSIVE Itoa(_)
\* fmt's %d of a non-negative int
Itoa(n) == IF n < 10 THEN <<DigitChars[n + 1]>>
           ELSE Itoa(n \div 10) \o <<DigitChars[(n % 10) + 1]>>

\* strings.Count(s, "\n")
CountNL(s) == Cardinality({i \in 1..Len(s) : s[i] = NL})

-----------------------------------------------------------------------------
(* Greedy variant: src/main.go *)

RECURSIVE CtxRunEqLen(_, _, _, _)
\* a context run that forgets to compare the lines
CtxRunEqLen(old, new, oi, ni) ==
    IF oi < Len(old) /\ ni < Len(new)
    THEN 1 + CtxRunEqLen(old, new, oi + 1, ni + 1)
    ELSE 0

RECURSIVE CtxRun(_, _, _, _)
\* number of iterations of the first inner loop (context lines)
CtxRun(old, new, oi, ni) ==
    IF oi < Len(old) /\ ni < Len(new) /\ old[oi + 1] = new[ni + 1]
    THEN 1 + CtxRun(old, new, oi + 1, ni + 1)
    ELSE 0

\* a deletion loop that removes at most one line
DelRunOne(old, new, oi, ni) ==
    IF oi < Len(old) /\ (ni >= Len(new) \/ old[oi + 1] # new[ni + 1]) THEN 1 ELSE 0

RECURSIVE DelRun(_, _, _, _)
\* number of iterations of the second inner loop (deleted lines)
DelRun(old, new, oi, ni) ==
    IF oi < Len(old) /\ (ni >= Len(new) \/ old[oi + 1] # new[ni + 1])
    THEN 1 + DelRun(old, new, oi + 1, ni)
    ELSE 0

\* an addition loop that never runs
AddRunNone(old, new, oi, ni) == 0

RECURSIVE AddRun(_, _, _, _)
\* number of iterations of the third inner loop (added lines)
AddRun(old, new, oi, ni) ==
    IF ni < Len(new) /\ (oi >= Len(old) \/ old[oi + 1] # new[ni + 1])
    THEN 1 + AddRun(old, new, oi, ni + 1)
    ELSE 0

\* the lines src[from+1 .. from+n] (0-based from), each prefixed by tag
Tagged(tag, src, from, n) == [k \in 1..n |-> <<tag>> \o src[from + k]]

\* one iteration of the outer loop of diffLines, started at (oi, ni):
\* the indexes after it and the chunk it builds
DiffLinesStep(old, new, oi, ni) ==
    LET c   == CtxRun(old, new, oi, ni)
        oi1 == oi + c
        ni1 == ni + c
        d   == DelRun(old, new, oi1, ni1)
        oi2 == oi1 + d
        a   == AddRun(old, new, oi2, ni1)
        ni2 == ni1 + a
    IN  [oldIndex |-> oi2,
         newIndex |-> ni2,
         chunk    |-> [oldStart |-> oi + 1,
                       newStart |-> ni + 1,
                       oldLines |-> oi2 - oi1,
                       newLines |-> ni2 - ni1,
                       lines    |-> Tagged(" ", old, oi, c)
                                    \o Tagged("-", old, oi1, d)
                                    \o Tagged("+", new, ni1, a)]]

\* "@@ -%d,%d +%d,%d @@\n" followed by the chunk's lines, each with "\n"
ChunkText(chunk) ==
    <<"@", "@", " ", "-">> \o Itoa(chunk.oldStart) \o <<",">> \o Itoa(chunk.oldLines)
    \o <<" ", "+">> \o Itoa(chunk.newStart) \o <<",">> \o Itoa(chunk.newLines)
    \o <<" ", "@", "@", NL>>
    \o Concat([k \in 1..Len(chunk.lines) |-> chunk.lines[k] \o <<NL>>])

\* the three header lines generateUnifiedDiff writes
UnifiedHeader(filePath) ==
    <<"d", "i", "f", "f", " ", "-", "-", "g", "i", "t", " ", "a", "/">> \o filePath
        \o <<" ", "b", "/">> \o filePath \o <<NL>>
    \o <<"-", "-", "-", " ", "a", "/">> \o filePath \o <<NL>>
    \o <<"+", "+", "+", " ", "b", "/">> \o filePath \o <<NL>>

\* the string generateUnifiedDiff returns, given the chunks of diffLines
UnifiedDiffText(filePath, cs) ==
    UnifiedHeader(filePath) \o Concat([k \in 1..Len(cs) |-> ChunkText(cs[k])])

\* the path of the scenario
ScenarioPath == <<"s", "r", "c", "/", "m", "a", "i", "n", ".", "t", "x", "t">>
ScenarioOld == <<"a", NL, "b", NL, "c", NL>>
ScenarioNew == <<"a", NL, "x", NL, "c", NL>>

GreedyAlphabet == {"a", "b", NL}
GreedyContents == StringsUpTo(GreedyAlphabet, MaxLen) \cup {ScenarioOld, ScenarioNew}

InitGreedyVars ==
    /\ oldContent \in GreedyContents
    /\ newContent \in GreedyContents
    /\ oldIndex = 0
    /\ newIndex = 0
    /\ chunks = <<>>
    /\ iters = 0
    /\ gpc = "loop"
    /\ fragment = <<>>

IdleGreedyVars ==
    /\ oldContent = <<>>
    /\ newContent = <<>>
    /\ oldIndex = 0
    /\ newIndex = 0
    /\ chunks = <<>>
    /\ iters = 0
    /\ gpc = "idle"
    /\ fragment = <<>>

oldLinesOf == Split(oldContent)
newLinesOf == Split(newContent)

\* one iteration of "for oldIndex < len(oldLines) || newIndex < len(newLines)"
DiffLinesIter ==
    /\ gpc = "loop"
    /\ oldIndex < Len(oldLinesOf) \/ newIndex < Len(newLinesOf)
    /\ LET r == DiffLinesStep(oldLinesOf, newLinesOf, oldIndex, newIndex)
       IN  /\ oldIndex' = r.oldIndex
           /\ newIndex' = r.newIndex
           /\ chunks' = IF Len(r.chunk.lines) > 0 THEN Append(chunks, r.chunk) ELSE chunks
    /\ iters' = iters + 1
    /\ UNCHANGED <<oldContent, newContent, gpc, fragment>>
    /\ UNCHANGED <<varsM, varsF>>

\* the loop ends; generateUnifiedDiff writes the header and the chunks
DiffLinesReturn ==
    /\ gpc = "loop"
    /\ ~(oldIndex < Len(oldLinesOf) \/ newIndex < Len(newLinesOf))
    /\ fragment' = UnifiedDiffText(ScenarioPath, chunks)
    /\ gpc' = "done"
    /\ UNCHANGED <<oldContent, newContent, oldIndex, newIndex, chunks, iters>>
    /\ UNCHANGED <<varsM, varsF>>

-----------------------------------------------------------------------------
(* Multi-backend variant: src/systemPrompt.md, lines 232-858 *)

maxFileDiffSize == 4000
maxAddedFilePreview == 4000

\* sizes of the long file content of the model
LongLineLen == 1000
LongLines == 5

LongLine == [i \in 1..LongLineLen |-> "a"]

RECURSIVE JoinNL(_)
\* strings.Join(ls, "\n")
JoinNL(ls) == IF Len(ls) = 0 THEN <<>>
              ELSE IF Len(ls) = 1 THEN ls[1]
              ELSE ls[1] \o <<NL>> \o JoinNL(Tail(ls))

LongText == JoinNL([k \in 1..LongLines |-> LongLine])

\* the file contents of the model, by name
ContentOf(name) ==
    CASE name = "empty"  -> <<>>
      [] name = "short"  -> <<"a", NL, "b">>
      [] name = "long"   -> LongText
      [] name = "binary" -> <<"a", NUL, "b">>
      [] name = "nl"     -> <<NL>>
      [] name = "lines"  -> <<"a", NL, "b", NL>>

PathGo == <<"m", ".", "g", "o">>
PathPng == <<"i", ".", "P", "N", "G">>
PathPool == {PathGo, PathPng}

excludedExtensions == {
    <<".", "p", "d", "f">>, <<".", "j", "p", "g">>, <<".", "j", "p", "e", "g">>,
    <<".", "p", "n", "g">>, <<".", "g", "i", "f">>, <<".", "z", "i", "p">>,
    <<".", "t", "a", "r">>, <<".", "g", "z">>, <<".", "e", "x", "e">>,
    <<".", "d", "l", "l">>, <<".", "s", "o">>, <<".", "d", "y", "l", "i", "b">>,
    <<".", "c", "l", "a", "s", "s">>, <<".", "p", "y", "c">>, <<".", "j", "a", "r">>,
    <<".", "w", "a", "r">>, <<".", "e", "a", "r">>, <<".", "s", "u", "m">>}

RECURSIVE ExtFrom(_, _)
\* filepath.Ext: scan back from position i to the last "." of the last element
ExtFrom(path, i) ==
    IF i >= 1 /\ path[i] # "/"
    THEN IF path[i] = "." THEN SubSeq(path, i, Len(path)) ELSE ExtFrom(path, i - 1)
    ELSE <<>>

Ext(path) == ExtFrom(path, Len(path))

UpperChars == <<"A", "B", "C", "D", "E", "F", "G", "H", "I", "J", "K", "L", "M",
                "N", "O", "P", "Q", "R", "S", "T", "U", "V", "W", "X", "Y", "Z">>
LowerChars == <<"a", "b", "c", "d", "e", "f", "g", "h", "i", "j", "k", "l", "m",
                "n", "o", "p", "q", "r", "s", "t", "u", "v", "w", "x", "y", "z">>

\* strings.ToLower
ToLower(s) ==
    [k \in 1..Len(s) |->
        IF \E u \in 1..Len(UpperChars) : UpperChars[u] = s[k]
        THEN LowerChars[CHOOSE u \in 1..Len(UpperChars) : UpperChars[u] = s[k]]
        ELSE s[k]]

Ok(text) == [err |-> FALSE, text |-> text]
Failed == [err |-> TRUE, text |-> <<>>]

\* getUnstagedFileContent: the working copy's content, or an error
getUnstagedFileContent(filePath) ==
    IF work[filePath] = "unreadable" THEN Failed ELSE Ok(ContentOf(work[filePath]))

\* getStagedFileContent: the content in the last commit, "" when the path is
\* not in it; headFails: the HEAD, commit or tree cannot be read
getStagedFileContent(filePath, headFails) ==
    IF headFails THEN Failed
    ELSE IF head[filePath] = "absent" THEN Ok(<<>>)
    ELSE Ok(ContentOf(head[filePath]))

\* an exclusion test that does not exclude a file it cannot read
shouldExcludeFileReadable(filePath) ==
    \/ ToLower(Ext(filePath)) \in excludedExtensions
    \/ LET c == getUnstagedFileContent(filePath)
       IN  ~c.err /\ \E i \in 1..Len(c.text) : c.text[i] = NUL

\* an exclusion test that forgets strings.ToLower
shouldExcludeFileCaseSensitive(filePath) ==
    \/ Ext(filePath) \in excludedExtensions
    \/ LET c == getUnstagedFileContent(filePath)
       IN  c.err \/ \E i \in 1..Len(c.text) : c.text[i] = NUL

shouldExcludeFile(filePath) ==
    \/ ToLower(Ext(filePath)) \in excludedExtensions
    \/ LET c == getUnstagedFileContent(filePath)
       IN  c.err \/ \E i \in 1..Len(c.text) : c.text[i] = NUL

\* "Excluded file: %s (binary or large data file)\n"
Placeholder(filePath) ==
    <<"E", "x", "c", "l", "u", "d", "e", "d", " ", "f", "i", "l", "e", ":", " ">>
    \o filePath
    \o <<" ", "(", "b", "i", "n", "a", "r", "y", " ", "o", "r", " ", "l", "a", "r", "g", "e",
         " ", "d", "a", "t", "a", " ", "f", "i", "l", "e", ")", NL>>

\* "diff --git a/%s b/%s\n"
DiffGitLine(filePath) ==
    <<"d", "i", "f", "f", " ", "-", "-", "g", "i", "t", " ", "a", "/">> \o filePath
    \o <<" ", "b", "/">> \o filePath \o <<NL>>

\* every line prefixed by tag and followed by "\n"
PrefixedLines(tag, ls) == Concat([k \in 1..Len(ls) |-> <<tag>> \o ls[k] \o <<NL>>])

\* a preview that keeps the whole content
PreviewWhole(content, maxPreview) == content

\* getAddedPatch: "preview := content[:maxPreview]"
Preview(content, maxPreview) == SubSeq(content, 1, maxPreview)

\* a line count that forgets the line after the last "\n"
LineCountNoLast(content) == CountNL(content)

\* getAddedPatch: "lineCount := strings.Count(content, "\n") + 1"
LineCount(content) == CountNL(content) + 1

getAddedPatch(filePath, maxPreview) ==
    LET c == getUnstagedFileContent(filePath)
        content == c.text
        hdr == DiffGitLine(filePath)
               \o <<"n", "e", "w", " ", "f", "i", "l", "e", " ", "m", "o", "d", "e", " ",
                    "1", "0", "0", "6", "4", "4", NL>>
               \o <<"-", "-", "-", " ", "/", "d", "e", "v", "/", "n", "u", "l", "l", NL>>
               \o <<"+", "+", "+", " ", "b", "/">> \o filePath \o <<NL>>
        lineCount == LineCount(content)
    IN  IF c.err THEN Failed
        ELSE IF Len(content) > maxPreview
        THEN Ok(hdr
                \o <<"@", "@", " ", "-", "0", ",", "0", " ", "+", "1", ",">> \o Itoa(lineCount)
                \o <<" ", "@", "@", " ", "(", "p", "r", "e", "v", "i", "e", "w", ")", NL>>
                \o PrefixedLines("+", Split(Preview(content, maxPreview)))
                \o <<NL, ".", ".", ".", " ", "(", "f", "i", "l", "e", " ", "t", "r", "u", "n",
                     "c", "a", "t", "e", "d", ",", " ", "t", "o", "t", "a", "l", " ">>
                \o Itoa(Len(content))
                \o <<" ", "c", "h", "a", "r", "a", "c", "t", "e", "r", "s", ")", " ",
                     ".", ".", ".", NL>>)
        ELSE Ok(hdr
                \o <<"@", "@", " ", "-", "0", ",", "0", " ", "+", "1", ",">> \o Itoa(lineCount)
                \o <<" ", "@", "@", NL>>
                \o PrefixedLines("+", Split(content)))

getDeletedPatch(filePath, headFails) ==
    LET c == getStagedFileContent(filePath, headFails)
        lines == Split(c.text)
    IN  IF c.err THEN Failed
        ELSE Ok(DiffGitLine(filePath)
                \o <<"d", "e", "l", "e", "t", "e", "d", " ", "f", "i", "l", "e", " ", "m", "o",
                     "d", "e", " ", "1", "0", "0", "6", "4", "4", NL>>
                \o <<"-", "-", "-", " ", "a", "/">> \o filePath \o <<NL>>
                \o <<"+", "+", "+", " ", "/", "d", "e", "v", "/", "n", "u", "l", "l", NL>>
                \o <<"@", "@", " ", "-", "1", ",">> \o Itoa(Len(lines))
                \o <<" ", "+", "0", ",", "0", " ", "@", "@", NL>>
                \o PrefixedLines("-", lines))

\* The strings difflib.GetUnifiedDiffString (github.com/pmezard/go-difflib, not
\* part of this repository) may return for a path: nothing, a one-line change,
\* or a change of LongLines long lines.
LibDiffTexts(filePath) ==
    LET hdr == <<"-", "-", "-", " ", "a", "/">> \o filePath \o <<NL>>
               \o <<"+", "+", "+", " ", "b", "/">> \o filePath \o <<NL>>
    IN  { <<>>,
          hdr \o <<"@", "@", " ", "-", "1", " ", "+", "1", " ", "@", "@", NL,
                   "-", "a", NL, "+", "b", NL>>,
          hdr \o <<"@", "@", " ", "-", "1", ",">> \o Itoa(LongLines)
              \o <<" ", "+", "1", " ", "@", "@", NL>>
              \o PrefixedLines("-", [k \in 1..LongLines |-> LongLine])
              \o <<"+", "b", NL>> }

\* getModifiedPatch; libDiff is what GetUnifiedDiffString returned
getModifiedPatch(filePath, headFails, libDiff) ==
    IF getStagedFileContent(filePath, headFails).err THEN Failed
    ELSE IF getUnstagedFileContent(filePath).err THEN Failed
    ELSE Ok(DiffGitLine(filePath) \o libDiff)

RECURSIVE truncateLoop(_, _, _, _)
\* the loop of truncatePatch from line i (1-based) on: the text it still writes
truncateLoop(lines, i, currentSize, maxSize) ==
    IF i > Len(lines) THEN <<>>
    ELSE IF i - 1 < 2 \/ HasPrefix(lines[i], <<"@", "@">>)
    THEN lines[i] \o <<NL>>
         \o truncateLoop(lines, i + 1, currentSize + Len(lines[i]) + 1, maxSize)
    ELSE IF currentSize + Len(lines[i]) + 1 > maxSize
    THEN <<>>
    ELSE lines[i] \o <<NL>>
         \o truncateLoop(lines, i + 1, currentSize + Len(lines[i]) + 1, maxSize)

truncatePatch(patch, maxSize) ==
    IF Len(patch) <= maxSize
    THEN [patch |-> patch, truncated |-> FALSE]
    ELSE [patch |-> truncateLoop(Split(patch), 1, 0, maxSize), truncated |-> TRUE]

\* "\n... (truncated, total %d characters) ...\n"
TruncationMarker(n) ==
    <<NL, ".", ".", ".", " ", "(", "t", "r", "u", "n", "c", "a", "t", "e", "d", ",", " ",
      "t", "o", "t", "a", "l", " ">>
    \o Itoa(n)
    \o <<" ", "c", "h", "a", "r", "a", "c", "t", "e", "r", "s", ")", " ", ".", ".", ".", NL>>

\* The block "if fileStatus.Staging != git.Added && len(patch) > maxFileDiffSize"
\* of getStagedDiff, and the value of the loop's variable patch after it.
\* "patch, truncated := g.truncatePatch(...)" declares two NEW variables in the
\* scope of the if block (both names are new there), so the truncated text and
\* the marker go to the inner patch; the patch of the loop body, which is the
\* one written to diff, keeps its value.
patchAfterTruncationBlock(staging, patch) ==
    IF staging # "Added" /\ Len(patch) > maxFileDiffSize
    THEN LET t == truncatePatch(patch, maxFileDiffSize)
             innerPatch == IF t.truncated
                           THEN t.patch \o TruncationMarker(Len(t.patch))
                           ELSE t.patch
         IN  patch
    ELSE patch

-----------------------------------------------------------------------------
(* Post-processing of a backend's text *)

WhiteSpace == {" ", NL, "\t", "\r"}

Max(S) == CHOOSE x \in S : \A y \in S : x >= y

\* strings.TrimSpace
TrimSpace(s) ==
    LET keep == {i \in 1..Len(s) : s[i] \notin WhiteSpace}
    IN  IF keep = {} THEN <<>> ELSE SubSeq(s, Min(keep), Max(keep))

\* strings.TrimPrefix
TrimPrefix(s, p) == IF HasPrefix(s, p) THEN SubSeq(s, Len(p) + 1, Len(s)) ELSE s

\* strings.HasSuffix
HasSuffix(s, p) == Len(s) >= Len(p) /\ SubSeq(s, Len(s) - Len(p) + 1, Len(s)) = p

\* strings.TrimSuffix
TrimSuffix(s, p) == IF HasSuffix(s, p) THEN SubSeq(s, 1, Len(s) - Len(p)) ELSE s

PrefixHere ==
    <<"H", "e", "r", "e", " ", "i", "s", " ", "t", "h", "e", " ", "g", "e", "n", "e", "r",
      "a", "t", "e", "d", " ", "c", "o", "m", "m", "i", "t", " ", "m", "e", "s", "s", "a",
      "g", "e", ":">>
\* the Japanese prefix, one element per character (named by its code point)
PrefixIka ==
    <<"U+4EE5", "U+4E0B", "U+304C", "U+30B3", "U+30DF", "U+30C3", "U+30C8", "U+30E1",
      "U+30C3", "U+30BB", "U+30FC", "U+30B8", "U+3067", "U+3059", ":">>
PrefixGenerated ==
    <<"G", "e", "n", "e", "r", "a", "t", "e", "d", " ", "c", "o", "m", "m", "i", "t", " ",
      "m", "e", "s", "s", "a", "g", "e", ":">>

prefixesToRemove ==
    <<PrefixHere, PrefixHere \o <<NL>>, PrefixIka, PrefixIka \o <<NL>>,
      PrefixGenerated, PrefixGenerated \o <<NL>>>>

RECURSIVE TrimPrefixes(_, _)
\* "for _, prefix := range prefixesToRemove { TrimPrefix }" from prefix i on
TrimPrefixes(s, i) ==
    IF i > Len(prefixesToRemove) THEN s
    ELSE TrimPrefixes(TrimPrefix(s, prefixesToRemove[i]), i + 1)

\* the back quote (a string of the module cannot hold the character itself)
BackQuote == "BQ"

Fence == <<BackQuote, BackQuote, BackQuote>>

\* the clean-up both generateCommitMessage and generateGeminiCommitMessage
\* apply to the text of the first choice
PostProcess(raw) ==
    LET s1 == TrimSpace(raw)
        s2 == TrimPrefixes(s1, 1)
        s3 == TrimSpace(s2)
        s4 == TrimPrefix(s3, Fence)
        s5 == TrimSuffix(s4, Fence)
    IN  TrimSpace(s5)

\* The texts a backend returns in the model
RawTexts ==
    { <<"f", "i", "x">>,
      <<" ">> \o Fence \o <<NL, "u", "p">> \o Fence \o <<NL>>,
      PrefixGenerated \o <<" ", "a", "d", "d">>,
      Fence \o <<NL>> \o Fence }

\* An HTTP exchange with a backend: doErr, client.Do or the read of the body
\* failed; code, the HTTP status; jsonOk, the body is JSON of the expected
\* shape; items, the choices (candidates) of the body, each the list of its
\* texts (an OpenAI choice has one message content, a Gemini candidate has a
\* list of parts).
TransportError == [doErr |-> TRUE, code |-> 0, jsonOk |-> FALSE, items |-> <<>>]

HttpResponses(itemsSet) ==
    {TransportError}
    \cup {[doErr |-> FALSE, code |-> c, jsonOk |-> FALSE, items |-> <<>>] : c \in {200, 500}}
    \cup {[doErr |-> FALSE, code |-> c, jsonOk |-> TRUE, items |-> it] :
             c \in {200, 500}, it \in itemsSet}

OpenAIResponses == HttpResponses({<<>>} \cup {<< <<t>> >> : t \in RawTexts})
GeminiResponses == HttpResponses({<<>>, << <<>> >>} \cup {<< <<t>> >> : t \in RawTexts})

\* generateCommitMessage on the exchange resp (Groq and OpenAI)
generateCommitMessage(resp) ==
    IF resp.doErr THEN Failed
    ELSE IF ~resp.jsonOk THEN Failed
    ELSE IF Len(resp.items) = 0 THEN Failed
    ELSE Ok(PostProcess(resp.items[1][1]))

\* generateGeminiCommitMessage on the exchange resp
generateGeminiCommitMessage(resp) ==
    IF resp.doErr THEN Failed
    ELSE IF ~resp.jsonOk THEN Failed
    ELSE IF Len(resp.items) = 0 \/ Len(resp.items[1]) = 0 THEN Failed
    ELSE Ok(PostProcess(resp.items[1][1]))

\* 8192 * 4
llama3ContextLimit == 32768

groqModel == IF Len(diff) > llama3ContextLimit THEN "mixtral-8x7b-32768"
             ELSE "llama3-70b-8192"

-----------------------------------------------------------------------------
(* The process: main *)

StagedKinds == {"Added", "Modified", "Deleted"}

\* one iteration of the range loop of getStagedDiff for filePath: what it does
\* (kind), the patch the get...Patch function returned (gen) and the text it
\* appends to diff
loopBody(filePath, headFails, libDiff) ==
    LET staging == status[filePath]
        r == CASE staging = "Added"    -> getAddedPatch(filePath, maxAddedFilePreview)
               [] staging = "Modified" -> getModifiedPatch(filePath, headFails, libDiff)
               [] staging = "Deleted"  -> getDeletedPatch(filePath, headFails)
               [] OTHER                -> Ok(<<>>)
    IN  IF shouldExcludeFile(filePath)
        THEN [kind |-> "excluded", gen |-> <<>>, text |-> Placeholder(filePath)]
        ELSE IF staging \notin StagedKinds
        THEN [kind |-> "skipped", gen |-> <<>>, text |-> <<>>]
        ELSE IF r.err
        THEN [kind |-> "error", gen |-> <<>>, text |-> <<>>]
        ELSE [kind |-> "patch", gen |-> r.text,
              text |-> patchAfterTruncationBlock(staging, r.text)]

\* the diagnostics of main; the text of a wrapped error is left out
MsgConfig ==
    "Error: At least one of GEMINI_API_KEY, GROQ_API_KEY, or OPENAI_API_KEY environment variable must be set"
MsgOpen == "Error: opening repository"
MsgWorktree == "Error: getting worktree"
MsgStatus == "Error: getting status"
MsgPatch == "Error: generating patch"
MsgNoStaged == "No staged changes found."
MsgGenerate == "Error generating commit message"
MsgAllFailed ==
    "Error generating commit message: all available APIs failed to generate commit message"

\* a key test that fails as soon as one key is missing
noKeySetAny(geminiAPIKey, groqAPIKey, openAIAPIKey) ==
    geminiAPIKey = "" \/ groqAPIKey = "" \/ openAIAPIKey = ""

\* NewCommitMessageGenerator: "At least one API key must be set"
noKeySet(geminiAPIKey, groqAPIKey, openAIAPIKey) ==
    geminiAPIKey = "" /\ groqAPIKey = "" /\ openAIAPIKey = ""

\* a test of the diff that never finds it empty
noStagedChangesNever(d) == FALSE

\* main: "if diff == """
noStagedChanges(d) == d = <<>>

\* a key test that lets every backend be tried
hasKeyAlways(apiKey) == TRUE

\* lazyGenerateCommitMessage: "if g.<backend>APIKey != """
hasKey(apiKey) == apiKey # ""

\* os.Exit(1) after a diagnostic on standard error
Die(msg) ==
    /\ stderr' = Append(stderr, msg)
    /\ exitCode' = 1
    /\ pc' = "exit"

\* main calls NewCommitMessageGenerator: the keys are read and checked, then
\* the repository and its worktree are opened
NewCommitMessageGenerator ==
    /\ pc = "start"
    /\ IF noKeySet(env.GEMINI_API_KEY, env.GROQ_API_KEY, env.OPENAI_API_KEY)
       THEN /\ Die(MsgConfig)
            /\ UNCHANGED log
       ELSE \E outcome \in {"ok", "openFails", "worktreeFails"} :
               CASE outcome = "openFails" ->
                        /\ log' = Append(log, "PlainOpen")
                        /\ Die(MsgOpen)
                 [] outcome = "worktreeFails" ->
                        /\ log' = log \o <<"PlainOpen", "Worktree">>
                        /\ Die(MsgWorktree)
                 [] OTHER ->
                        /\ log' = log \o <<"PlainOpen", "Worktree">>
                        /\ pc' = "getStagedDiff"
                        /\ UNCHANGED <<stderr, exitCode>>
    /\ UNCHANGED <<env, status, head, work, remaining, diff, written, diffResult,
                   attempts, stdout>>
    /\ UNCHANGED <<varsG, varsF>>

\* getStagedDiff starts: worktree.Status()
GetStatus ==
    /\ pc = "getStagedDiff"
    /\ log' = Append(log, "Status")
    /\ \E statusFails \in BOOLEAN :
          IF statusFails
          THEN /\ Die(MsgStatus)
               /\ diffResult' = "failed"
               /\ UNCHANGED remaining
          ELSE /\ remaining' = DOMAIN status
               /\ pc' = "range"
               /\ UNCHANGED <<stderr, exitCode, diffResult>>
    /\ UNCHANGED <<env, status, head, work, diff, written, attempts, stdout>>
    /\ UNCHANGED <<varsG, varsF>>

\* the body of "for filePath, fileStatus := range status" run for filePath
Visit(filePath) ==
    /\ pc = "range"
    /\ filePath \in remaining
    /\ \E headFails \in BOOLEAN :
       \E libDiff \in LibDiffTexts(filePath) :
          LET b == loopBody(filePath, headFails, libDiff)
          IN  /\ written' = Append(written, [path |-> filePath, kind |-> b.kind,
                                             genLen |-> Len(b.gen), len |-> Len(b.text)])
              /\ IF b.kind = "error"
                 THEN /\ Die(MsgPatch)
                      /\ diffResult' = "failed"
                      /\ UNCHANGED <<diff, remaining>>
                 ELSE /\ diff' = diff \o b.text
                      /\ remaining' = remaining \ {filePath}
                      /\ UNCHANGED <<pc, stderr, exitCode, diffResult>>
    /\ UNCHANGED <<env, status, head, work, log, attempts, stdout>>
    /\ UNCHANGED <<varsG, varsF>>

\* one iteration of "for filePath, fileStatus := range status": Go visits the
\* keys of a map in an order it does not specify
RangeStatus == \E filePath \in remaining : Visit(filePath)

\* the loop is over: getStagedDiff returns diff.String() and main tests it
RangeDone ==
    /\ pc = "range"
    /\ remaining = {}
    /\ diffResult' = "returned"
    /\ IF noStagedChanges(diff)
       THEN Die(MsgNoStaged)
       ELSE /\ pc' = "gemini"
            /\ UNCHANGED <<stderr, exitCode>>
    /\ UNCHANGED <<env, status, head, work, remaining, diff, written, log, attempts, stdout>>
    /\ UNCHANGED <<varsG, varsF>>

\* a main that prints the text with a line end (Fprintln)
PrintMessageLn(text) ==
    /\ stdout' = stdout \o text \o <<NL>>
    /\ exitCode' = 0
    /\ pc' = "exit"
    /\ UNCHANGED stderr

\* lazyGenerateCommitMessage returned (text, nil): main prints the text
PrintMessage(text) ==
    /\ stdout' = stdout \o text
    /\ exitCode' = 0
    /\ pc' = "exit"
    /\ UNCHANGED stderr

Attempt(backend, model, resp, r) ==
    [backend |-> backend, model |-> model, resp |-> resp, err |-> r.err, text |-> r.text]

\* a fallback that tries the backend that failed again
nextAfterFailureRetry(backend) ==
    CASE backend = "Gemini" -> "gemini"
      [] backend = "Groq"   -> "groq"

\* a fallback that goes to the last backend at once
nextAfterFailureLast(backend) ==
    CASE backend = "Gemini" -> "openai"
      [] backend = "Groq"   -> "openai"

\* lazyGenerateCommitMessage: where control goes when the call of backend
\* returned an error: "If Gemini fails, continue to other APIs", "If Groq
\* fails, continue to OpenAI"
nextAfterFailure(backend) ==
    CASE backend = "Gemini" -> "groq"
      [] backend = "Groq"   -> "openai"

\* lazyGenerateCommitMessage: "if g.geminiAPIKey != """
TryGemini ==
    /\ pc = "gemini"
    /\ IF ~hasKey(env.GEMINI_API_KEY)
       THEN /\ pc' = "groq"
            /\ UNCHANGED <<log, attempts, stdout, stderr, exitCode>>
       ELSE \E resp \in GeminiResponses :
               LET r == generateGeminiCommitMessage(resp)
               IN  /\ log' = Append(log, "Gemini")
                   /\ attempts' = Append(attempts, Attempt("Gemini", "gemini-1.5-flash", resp, r))
                   /\ IF r.err
                      THEN /\ pc' = nextAfterFailure("Gemini")
                           /\ UNCHANGED <<stdout, stderr, exitCode>>
                      ELSE PrintMessage(r.text)
    /\ UNCHANGED <<env, status, head, work, remaining, diff, written, diffResult>>
    /\ UNCHANGED <<varsG, varsF>>

\* lazyGenerateCommitMessage: "if g.groqAPIKey != """
TryGroq ==
    /\ pc = "groq"
    /\ IF ~hasKey(env.GROQ_API_KEY)
       THEN /\ pc' = "openai"
            /\ UNCHANGED <<log, attempts, stdout, stderr, exitCode>>
       ELSE \E resp \in OpenAIResponses :
               LET r == generateCommitMessage(resp)
               IN  /\ log' = Append(log, "Groq")
                   /\ attempts' = Append(attempts, Attempt("Groq", groqModel, resp, r))
                   /\ IF r.err
                      THEN /\ pc' = nextAfterFailure("Groq")
                           /\ UNCHANGED <<stdout, stderr, exitCode>>
                      ELSE PrintMessage(r.text)
    /\ UNCHANGED <<env, status, head, work, remaining, diff, written, diffResult>>
    /\ UNCHANGED <<varsG, varsF>>

\* lazyGenerateCommitMessage: "if g.openAIAPIKey != """, whose result is
\* returned as it is, and the final error when no backend is left
TryOpenAI ==
    /\ pc = "openai"
    /\ IF ~hasKey(env.OPENAI_API_KEY)
       THEN /\ Die(MsgAllFailed)
            /\ UNCHANGED <<log, attempts, stdout>>
       ELSE \E resp \in OpenAIResponses :
               LET r == generateCommitMessage(resp)
               IN  /\ log' = Append(log, "OpenAI")
                   /\ attempts' = Append(attempts,
                                         Attempt("OpenAI", "gpt-4o-mini-2024-07-18", resp, r))
                   /\ IF r.err
                      THEN /\ Die(MsgGenerate)
                           /\ UNCHANGED stdout
                      ELSE PrintMessage(r.text)
    /\ UNCHANGED <<env, status, head, work, remaining, diff, written, diffResult>>
    /\ UNCHANGED <<varsG, varsF>>

-----------------------------------------------------------------------------
(* Repository states and specifications *)

\* what one path can be: its staging status, its content in the last commit
\* and in the working copy
Profiles ==
    {[staging |-> "Added", head |-> "absent", work |-> w] :
        w \in {"unreadable", "empty", "short", "long", "binary"}}
    \cup {[staging |-> "Untracked", head |-> "absent", work |-> w] :
        w \in {"empty", "short", "long", "binary"}}
    \cup {[staging |-> s, head |-> h, work |-> w] :
        s \in {"Modified", "Deleted"}, h \in {"short", "long"},
        w \in {"unreadable", "empty", "short", "long", "binary"}}
    \cup {pr \in [staging : {"Unmodified"}, head : {"short", "long"},
                   work : {"unreadable", "empty", "short", "long", "binary"}] :
             pr.work # pr.head}

SmallProfiles == {pr \in Profiles : pr.head # "long" /\ pr.work \in {"unreadable", "short"}}

Repos(paths, profiles) ==
    UNION {[D -> profiles] : D \in SUBSET paths}

EnvSet == [GEMINI_API_KEY : {"", "g-key"}, GROQ_API_KEY : {"", "q-key"},
           OPENAI_API_KEY : {"", "o-key"}]

InitMultiVars(envs, repos) ==
    /\ env \in envs
    /\ \E repo \in repos :
          /\ status = [p \in DOMAIN repo |-> repo[p].staging]
          /\ head = [p \in DOMAIN repo |-> repo[p].head]
          /\ work = [p \in DOMAIN repo |-> repo[p].work]
    /\ pc = "start"
    /\ remaining = {}
    /\ diff = <<>>
    /\ written = <<>>
    /\ diffResult = "pending"
    /\ log = <<>>
    /\ attempts = <<>>
    /\ stdout = <<>>
    /\ stderr = <<>>
    /\ exitCode = -1

\* no process runs; the working copy is w
IdleMultiVarsWith(w) ==
    /\ env = [GEMINI_API_KEY |-> "", GROQ_API_KEY |-> "", OPENAI_API_KEY |-> ""]
    /\ status = <<>>
    /\ head = <<>>
    /\ work = w
    /\ pc = "idle"
    /\ remaining = {}
    /\ diff = <<>>
    /\ written = <<>>
    /\ diffResult = "pending"
    /\ log = <<>>
    /\ attempts = <<>>
    /\ stdout = <<>>
    /\ stderr = <<>>
    /\ exitCode = -1

IdleMultiVars == IdleMultiVarsWith(<<>>)

NotCalled == [done |-> FALSE, text |-> <<>>, flag |-> FALSE]

IdleFnVars ==
    /\ fn = "idle"
    /\ arg = <<>>
    /\ size = 0
    /\ out = NotCalled

vars == <<varsG, varsM, varsF>>

\* the whole process run, on repositories of at most one changed path
Init == IdleGreedyVars /\ IdleFnVars /\ InitMultiVars(EnvSet, Repos({PathGo}, SmallProfiles)
                                                \cup Repos({PathPng}, SmallProfiles))

Next ==
    \/ NewCommitMessageGenerator
    \/ GetStatus
    \/ RangeStatus
    \/ RangeDone
    \/ TryGemini
    \/ TryGroq
    \/ TryOpenAI

Spec == Init /\ [][Next]_vars

\* the run up to the return of getStagedDiff, on every repository state of
\* the model
InitDiff ==
    IdleGreedyVars /\ IdleFnVars
    /\ InitMultiVars({e \in EnvSet : e.GEMINI_API_KEY = "" /\ e.GROQ_API_KEY = ""},
                     Repos(PathPool, Profiles))

NextDiff ==
    \/ NewCommitMessageGenerator
    \/ GetStatus
    \/ RangeStatus
    \/ RangeDone

SpecDiff == InitDiff /\ [][NextDiff]_vars

\* one call of generateUnifiedDiff of the greedy variant
NextGreedy == DiffLinesIter \/ DiffLinesReturn

InitGreedy == InitGreedyVars /\ IdleMultiVars /\ IdleFnVars

SpecGreedy == InitGreedy /\ [][NextGreedy]_vars

\* bound of the contents of the calls that are followed to their end
MaxLiveLen == 2

LiveContents == StringsUpTo({"a", NL}, MaxLiveLen) \cup {ScenarioOld, ScenarioNew}

InitGreedyLive ==
    /\ InitGreedy
    /\ oldContent \in LiveContents
    /\ newContent \in LiveContents

\* the call runs on: a sequential program takes its next step
SpecGreedyLive == InitGreedyLive /\ [][NextGreedy]_vars /\ WF_vars(NextGreedy)

-----------------------------------------------------------------------------
(* Two-backend variant: src/unnamed/part_004, one process run *)

MsgGroqNotSet == "Error: GROQ_API_KEY environment variable is not set"
MsgOpenAINotSet == "Error: OPENAI_API_KEY environment variable is not set"

GroqUrl == "https://api.groq.com/openai/v1/chat/completions"
OpenAIUrl == "https://api.openai.com/v1/chat/completions"

\* fmt.Println(label, value): the operands separated by a blank, then "\n"
Println(label, value) == <<label, " ">> \o value \o <<NL>>

\* the four fmt.Println calls at the start of generateCommitMessage; the url,
\* the model and the key are each one element of the output
DebugLines(url, model, d, apiKey) ==
    Println("url", <<url>>) \o Println("model", <<model>>)
    \o Println("diff", d) \o Println("apiKey", <<apiKey>>)

\* the clean-up of the two-backend variant: trim, one leading and one
\* trailing fence, trim
PostProcessTwo(raw) ==
    TrimSpace(TrimSuffix(TrimPrefix(TrimSpace(raw), Fence), Fence))

\* generateCommitMessage of the two-backend variant on the exchange resp
generateCommitMessageTwo(resp) ==
    IF resp.doErr THEN Failed
    ELSE IF ~resp.jsonOk THEN Failed
    ELSE IF Len(resp.items) = 0 THEN Failed
    ELSE Ok(PostProcessTwo(resp.items[1][1]))

\* the documents getStagedDiff returns in the runs of this variant
TwoDocs == {<<>>, Placeholder(PathPng), DiffGitLine(PathGo)}

EnvTwo == [GEMINI_API_KEY : {""}, GROQ_API_KEY : {"", "q-key", "q-key-2"},
           OPENAI_API_KEY : {"", "o-key", "o-key-2"}]

InitTwo ==
    /\ IdleGreedyVars
    /\ IdleFnVars
    /\ env \in EnvTwo
    /\ status = <<>>
    /\ head = <<>>
    /\ work = <<>>
    /\ pc = "two:start"
    /\ remaining = {}
    /\ diff = <<>>
    /\ written = <<>>
    /\ diffResult = "pending"
    /\ log = <<>>
    /\ attempts = <<>>
    /\ stdout = <<>>
    /\ stderr = <<>>
    /\ exitCode = -1

\* NewCommitMessageGenerator: both keys must be set, then the repository and
\* its worktree are opened
NewCommitMessageGeneratorTwo ==
    /\ pc = "two:start"
    /\ IF env.GROQ_API_KEY = ""
       THEN Die(MsgGroqNotSet) /\ UNCHANGED log
       ELSE IF env.OPENAI_API_KEY = ""
       THEN Die(MsgOpenAINotSet) /\ UNCHANGED log
       ELSE \E outcome \in {"ok", "openFails", "worktreeFails"} :
               CASE outcome = "openFails" ->
                        /\ log' = Append(log, "PlainOpen")
                        /\ Die(MsgOpen)
                 [] outcome = "worktreeFails" ->
                        /\ log' = log \o <<"PlainOpen", "Worktree">>
                        /\ Die(MsgWorktree)
                 [] OTHER ->
                        /\ log' = log \o <<"PlainOpen", "Worktree">>
                        /\ pc' = "two:getStagedDiff"
                        /\ UNCHANGED <<stderr, exitCode>>
    /\ UNCHANGED <<env, status, head, work, remaining, diff, written, diffResult,
                   attempts, stdout>>
    /\ UNCHANGED <<varsG, varsF>>

\* main calls getStagedDiff and tests its result
getStagedDiffTwo ==
    /\ pc = "two:getStagedDiff"
    /\ log' = Append(log, "Status")
    /\ \E fails \in BOOLEAN, d \in TwoDocs :
          IF fails
          THEN /\ Die(MsgStatus)
               /\ diffResult' = "failed"
               /\ UNCHANGED diff
          ELSE /\ diff' = d
               /\ diffResult' = "returned"
               /\ IF d = <<>>
                  THEN Die(MsgNoStaged)
                  ELSE /\ pc' = "two:groq"
                       /\ UNCHANGED <<stderr, exitCode>>
    /\ UNCHANGED <<env, status, head, work, remaining, written, attempts, stdout>>
    /\ UNCHANGED <<varsG, varsF>>

\* lazyGenerateCommitMessage: the call of generateCommitMessage for Groq
TryGroqTwo ==
    /\ pc = "two:groq"
    /\ \E resp \in OpenAIResponses :
          LET r == generateCommitMessageTwo(resp)
              printed == DebugLines(GroqUrl, "llama3-70b-8192", diff, env.GROQ_API_KEY)
          IN  /\ log' = Append(log, "Groq")
              /\ attempts' = Append(attempts, Attempt("Groq", "llama3-70b-8192", resp, r))
              /\ IF r.err
                 THEN /\ stdout' = stdout \o printed
                      /\ pc' = "two:openai"
                      /\ UNCHANGED <<stderr, exitCode>>
                 ELSE /\ stdout' = stdout \o printed \o r.text
                      /\ exitCode' = 0
                      /\ pc' = "exit"
                      /\ UNCHANGED stderr
    /\ UNCHANGED <<env, status, head, work, remaining, diff, written, diffResult>>
    /\ UNCHANGED <<varsG, varsF>>

\* lazyGenerateCommitMessage: Groq failed, the result of the call for OpenAI
\* is returned as it is
TryOpenAITwo ==
    /\ pc = "two:openai"
    /\ \E resp \in OpenAIResponses :
          LET r == generateCommitMessageTwo(resp)
              printed == DebugLines(OpenAIUrl, "gpt-4o-mini-2024-07-18", diff,
                                    env.OPENAI_API_KEY)
          IN  /\ log' = Append(log, "OpenAI")
              /\ attempts' = Append(attempts,
                                    Attempt("OpenAI", "gpt-4o-mini-2024-07-18", resp, r))
              /\ IF r.err
                 THEN /\ stdout' = stdout \o printed
                      /\ Die(MsgGenerate)
                 ELSE /\ stdout' = stdout \o printed \o r.text
                      /\ exitCode' = 0
                      /\ pc' = "exit"
                      /\ UNCHANGED stderr
    /\ UNCHANGED <<env, status, head, work, remaining, diff, written, diffResult>>
    /\ UNCHANGED <<varsG, varsF>>

NextTwo ==
    \/ NewCommitMessageGeneratorTwo
    \/ getStagedDiffTwo
    \/ TryGroqTwo
    \/ TryOpenAITwo

SpecTwo == InitTwo /\ [][NextTwo]_vars

\* bounds of the arguments of the functions called on their own
MaxRawLen == 7
MaxPatchLines == 4
MaxSize == 6

\* the texts of a backend: every string of back quotes, blanks and letters up
\* to MaxRawLen, and texts that start with one or two of the listed prefixes
RawInputs ==
    LET short == StringsUpTo({BackQuote, " ", "x"}, 2)
        P == Range(prefixesToRemove)
    IN  StringsUpTo({BackQuote, " ", "x"}, MaxRawLen)
        \cup {p \o t : p \in P, t \in short}
        \cup {p \o <<" ">> \o q \o <<"x">> : p \in P, q \in P}

PatchLines == {<<"h">>, <<"@", "@">>, <<"x", "x">>}

\* the patches: at most MaxPatchLines lines of PatchLines, joined by "\n"
PatchInputs ==
    {JoinNL(ls) : ls \in UNION {[1..n -> PatchLines] : n \in 1..MaxPatchLines}}

\* the contents of the added file
AddedContents == {"unreadable", "empty", "short", "nl", "lines", "long"}

InitFn ==
    /\ IdleGreedyVars
    /\ out = NotCalled
    /\ \/ /\ fn = "PostProcess"
          /\ arg \in RawInputs
          /\ size = 0
          /\ IdleMultiVars
       \/ /\ fn = "truncatePatch"
          /\ arg \in PatchInputs
          /\ size \in 0..MaxSize
          /\ IdleMultiVars
       \/ /\ fn = "getAddedPatch"
          /\ arg = PathGo
          /\ size \in (0..MaxSize) \cup {maxAddedFilePreview}
          /\ \E c \in AddedContents : IdleMultiVarsWith([p \in {PathGo} |-> c])

\* the clean-up of generateCommitMessage applied to the text arg
CallPostProcess ==
    /\ fn = "PostProcess"
    /\ ~out.done
    /\ out' = [done |-> TRUE, text |-> PostProcess(arg), flag |-> FALSE]
    /\ UNCHANGED <<fn, arg, size, varsG, varsM>>

\* truncatePatch(arg, size)
CallTruncatePatch ==
    /\ fn = "truncatePatch"
    /\ ~out.done
    /\ LET r == truncatePatch(arg, size)
       IN  out' = [done |-> TRUE, text |-> r.patch, flag |-> r.truncated]
    /\ UNCHANGED <<fn, arg, size, varsG, varsM>>

\* getAddedPatch(arg, size); flag is "err != nil"
CallGetAddedPatch ==
    /\ fn = "getAddedPatch"
    /\ ~out.done
    /\ LET r == getAddedPatch(arg, size)
       IN  out' = [done |-> TRUE, text |-> r.text, flag |-> r.err]
    /\ UNCHANGED <<fn, arg, size, varsG, varsM>>

NextFn == CallPostProcess \/ CallTruncatePatch \/ CallGetAddedPatch

SpecFn == InitFn /\ [][NextFn]_vars

-----------------------------------------------------------------------------
(* Properties of the greedy variant *)

\* all tagged lines of the chunks returned by diffLines, in order
AllTagged == Concat([k \in 1..Len(chunks) |-> chunks[k].lines])

IsOldSide(l) == l[1] \in {" ", "-"}
IsNewSide(l) == l[1] \in {" ", "+"}
IsChange(l) == l[1] \in {"-", "+"}

\* the lines with their tag removed
Untag(ls) == [k \in 1..Len(ls) |-> Tail(ls[k])]

\* the lines of the fragment after the three header lines (the text ends with
\* "\n", so the last element of Split is dropped)
FragmentBody ==
    LET ls == Split(fragment) IN SubSeq(ls, 4, Len(ls) - 1)

IsHunkHeader(l) == HasPrefix(l, <<"@", "@">>)
IsBodyChange(l) == ~IsHunkHeader(l) /\ Len(l) > 0 /\ l[1] \in {"-", "+"}
IsBodyContext(l) == ~IsHunkHeader(l) /\ Len(l) > 0 /\ l[1] = " "

\* C1: when diffLines has returned, the ' ' and '+' lines of all chunks, in
\* order and with the tag removed, are exactly the new line sequence, and the
\* ' ' and '-' lines are exactly the old line sequence.
C1_RoundTrip ==
    gpc = "done" =>
        /\ Untag(SelectSeq(AllTagged, IsNewSide)) = newLinesOf
        /\ Untag(SelectSeq(AllTagged, IsOldSide)) = oldLinesOf

\* a finished diff of two chunks with context, deleted and added lines
C1_Witness ==
    /\ gpc = "done"
    /\ Len(chunks) >= 2
    /\ \E k \in 1..Len(AllTagged) : AllTagged[k][1] = " "
    /\ \E k \in 1..Len(AllTagged) : AllTagged[k][1] = "-"
    /\ \E k \in 1..Len(AllTagged) : AllTagged[k][1] = "+"

\* C2: when the old content equals the new content, the fragment returned by
\* generateUnifiedDiff has no hunk: no line of it starts with "@@".
C2_NoHunkWhenEqual ==
    (gpc = "done" /\ oldContent = newContent) =>
        SelectSeq(FragmentBody, IsHunkHeader) = <<>>

\* C3: for old "a\nb\nc\n" and new "a\nx\nc\n" the fragment has exactly one
\* hunk, "@@ -2,1 +2,1 @@", its changed lines are "-b" then "+x", and "a" and
\* "c" appear as context lines only.
C3_Scenario ==
    (gpc = "done" /\ oldContent = ScenarioOld /\ newContent = ScenarioNew) =>
        /\ SelectSeq(FragmentBody, IsHunkHeader)
             = << <<"@", "@", " ", "-", "2", ",", "1", " ", "+", "2", ",", "1", " ", "@", "@">> >>
        /\ SelectSeq(FragmentBody, IsBodyChange) = << <<"-", "b">>, <<"+", "x">> >>
        /\ \E k \in 1..Len(FragmentBody) : FragmentBody[k] = <<" ", "a">>
        /\ \E k \in 1..Len(FragmentBody) : FragmentBody[k] = <<" ", "c">>

-----------------------------------------------------------------------------
(* Properties of the multi-backend variant *)

RECURSIVE WrittenBefore(_)
\* the number of characters the iterations before the k-th appended to diff
WrittenBefore(k) == IF k <= 1 THEN 0 ELSE WrittenBefore(k - 1) + written[k - 1].len

\* the text the k-th iteration of the range loop appended to diff
TextWritten(k) == SubSeq(diff, WrittenBefore(k) + 1, WrittenBefore(k) + written[k].len)

Visits == 1..Len(written)

HasNul(text) == \E i \in 1..Len(text) : text[i] = NUL

Backends == <<"Gemini", "Groq", "OpenAI">>
RankOf(backend) == CHOOSE r \in 1..Len(Backends) : Backends[r] = backend
KeyOf(backend) ==
    CASE backend = "Gemini" -> env.GEMINI_API_KEY
      [] backend = "Groq"   -> env.GROQ_API_KEY
      [] backend = "OpenAI" -> env.OPENAI_API_KEY

\* C4: when getStagedDiff has returned its document, every path with staging
\* status Deleted has a fragment in it whose lines after the hunk header are
\* the lines of the last-committed content, each prefixed "-", whatever the
\* content's length and whether or not the path exists in the working copy.
C4_DeletedShownInFull ==
    diffResult = "returned" =>
        \A p \in DOMAIN status :
            status[p] = "Deleted" =>
                \E k \in Visits :
                    /\ written[k].path = p
                    /\ written[k].kind = "patch"
                    /\ LET ls == Split(TextWritten(k))
                       IN  SubSeq(ls, 6, Len(ls) - 1)
                             = [i \in 1..Len(Split(ContentOf(head[p]))) |->
                                   <<"-">> \o Split(ContentOf(head[p]))[i]]

\* the lines truncatePatch keeps whatever their size: the first two and the
\* hunk headers
UnconditionalLen(text) ==
    LET ls == Split(text)
        keep == {i \in 1..Len(ls) : i <= 2 \/ HasPrefix(ls[i], <<"@", "@">>)}
        RECURSIVE SumLen(_)
        SumLen(S) == IF S = {} THEN 0
                     ELSE LET i == CHOOSE x \in S : TRUE
                          IN  Len(ls[i]) + 1 + SumLen(S \ {i})
    IN  SumLen(keep)

MarkerHead == <<NL, ".", ".", ".", " ", "(", "t", "r", "u", "n", "c", "a", "t", "e", "d", ",",
                " ", "t", "o", "t", "a", "l", " ">>
MarkerTail == <<" ", "c", "h", "a", "r", "a", "c", "t", "e", "r", "s", ")", " ", ".", ".", ".",
                NL>>

\* text is "<content>\n... (truncated, total N characters) ...\n" with a content
\* no longer than maxFileDiffSize plus the lines kept unconditionally
IsTruncatedWithMarker(text) ==
    /\ HasSuffix(text, MarkerTail)
    /\ \E i \in 1..Len(text) :
          /\ text[i] = NL
          /\ HasPrefix(SubSeq(text, i, Len(text)), MarkerHead)
          /\ \A j \in (i + Len(MarkerHead))..(Len(text) - Len(MarkerTail)) :
                \E d \in 1..Len(DigitChars) : DigitChars[d] = text[j]
          /\ i - 1 <= maxFileDiffSize + UnconditionalLen(SubSeq(text, 1, i - 1))

\* C5: for every Modified path whose generated fragment is longer than
\* maxFileDiffSize, the text getStagedDiff writes for the path is the truncated
\* fragment followed by the "(truncated, total N characters)" marker; the
\* untruncated fragment is never written.
C5_ModifiedTruncated ==
    \A k \in Visits :
        (/\ written[k].kind = "patch"
         /\ status[written[k].path] = "Modified"
         /\ written[k].genLen > maxFileDiffSize)
        => IsTruncatedWithMarker(TextWritten(k))

\* the exclusion condition of C6 for path p
MustBeExcluded(p) ==
    \/ ToLower(Ext(p)) \in excludedExtensions
    \/ (work[p] # "unreadable" /\ HasNul(ContentOf(work[p])))

\* C6: whatever its change kind, a path whose lower-cased extension is in
\* excludedExtensions, or whose working-copy content contains a null byte,
\* contributes to the diff document only the one-line placeholder
\* "Excluded file: <path> (binary or large data file)".
C6_ExcludedOnlyPlaceholder ==
    \A k \in Visits :
        MustBeExcluded(written[k].path) =>
            /\ written[k].kind = "excluded"
            /\ TextWritten(k) = Placeholder(written[k].path)

\* a returned document with the placeholder of a Deleted path of an excluded
\* extension (written upper-case) and that of a Modified path with a null byte
C6_Witness ==
    /\ diffResult = "returned"
    /\ \E k \in Visits :
          /\ written[k].path = PathPng
          /\ status[PathPng] = "Deleted"
          /\ work[PathPng] = "short"
          /\ TextWritten(k) = Placeholder(PathPng)
    /\ \E k \in Visits :
          /\ written[k].path = PathGo
          /\ status[PathGo] = "Modified"
          /\ work[PathGo] = "binary"
          /\ TextWritten(k) = Placeholder(PathGo)

\* C7: a path whose staging status is none of Added, Modified, Deleted
\* contributes no text to the diff document, so the document getStagedDiff
\* returns is empty whenever no path has a staged change.
C7_UnstagedContributeNothing ==
    /\ \A k \in Visits :
          status[written[k].path] \notin StagedKinds => written[k].len = 0
    /\ (diffResult = "returned" /\ \A p \in DOMAIN status : status[p] \notin StagedKinds)
          => diff = <<>>

\* C8: in every run where getStagedDiff returns the empty document, the
\* process reports "No staged changes found." on standard error, exits
\* non-zero, and no backend call is made at any point of the run.
C8_EmptyDiffNoBackend ==
    (diffResult = "returned" /\ diff = <<>>) =>
        /\ pc = "exit"
        /\ exitCode # 0
        /\ stderr = <<MsgNoStaged>>
        /\ stdout = <<>>
        /\ attempts = <<>>
        /\ Range(log) \cap Range(Backends) = {}

\* a run with a credential and a repository whose only path is not excluded
\* and has no staged change: getStagedDiff returned "" and the process exited
C8_Witness ==
    /\ diffResult = "returned"
    /\ diff = <<>>
    /\ pc = "exit"
    /\ env.GEMINI_API_KEY # ""
    /\ Len(written) = 1
    /\ written[1].kind = "skipped"

\* C9: NewCommitMessageGenerator fails with the configuration error exactly
\* when none of GEMINI_API_KEY, GROQ_API_KEY, OPENAI_API_KEY is set; the process
\* then exits non-zero before the repository is opened, before any diff is
\* built and before any network call; with at least one key set there is no
\* configuration error.
C9_ConfigErrorIffNoKey ==
    LET noKey == env.GEMINI_API_KEY = "" /\ env.GROQ_API_KEY = "" /\ env.OPENAI_API_KEY = ""
    IN  pc # "start" =>
           /\ (MsgConfig \in Range(stderr)) <=> noKey
           /\ noKey => /\ pc = "exit"
                       /\ exitCode = 1
                       /\ stderr = <<MsgConfig>>
                       /\ log = <<>>
                       /\ diffResult = "pending"
                       /\ written = <<>>
                       /\ diff = <<>>
                       /\ attempts = <<>>
                       /\ stdout = <<>>

\* the process has exited on the configuration error although the repository
\* has a staged change
C9_Witness ==
    /\ pc = "exit"
    /\ stderr = <<MsgConfig>>
    /\ \E p \in DOMAIN status : status[p] \in StagedKinds

IsBackendCall(e) == e \in Range(Backends)

\* C10: the backends that have a credential are attempted in the order
\* Gemini, Groq, OpenAI; a backend without a credential is never called; no
\* backend is called after an attempt succeeded; and the text printed is the
\* text of the first attempt that succeeded.
C10_FallbackOrder ==
    /\ \A j \in 1..Len(attempts) :
          /\ KeyOf(attempts[j].backend) # ""
          /\ \A i \in 1..(j - 1) :
                /\ RankOf(attempts[i].backend) < RankOf(attempts[j].backend)
                /\ attempts[i].err
          /\ \A r \in 1..(RankOf(attempts[j].backend) - 1) :
                KeyOf(Backends[r]) # "" => \E i \in 1..(j - 1) : attempts[i].backend = Backends[r]
          /\ ~attempts[j].err =>
                attempts[j].text = PostProcess(attempts[j].resp.items[1][1])
    /\ SelectSeq(log, IsBackendCall) = [j \in 1..Len(attempts) |-> attempts[j].backend]
    /\ (pc = "exit" /\ exitCode = 0) =>
          /\ attempts # <<>>
          /\ ~attempts[Len(attempts)].err
          /\ stdout = attempts[Len(attempts)].text

\* Gemini and Groq failed, OpenAI succeeded and its text was printed
C10_Witness ==
    /\ pc = "exit"
    /\ exitCode = 0
    /\ Len(attempts) = 3
    /\ attempts[1].err
    /\ attempts[2].err
    /\ stdout = attempts[3].text
    /\ stdout # <<>>

IsConfigured(backend) == KeyOf(backend) # ""

\* the backends that have a credential, in the order of the fallback
Configured == SelectSeq(Backends, IsConfigured)

\* the number of calls made to backend so far
CallsTo(backend) == Cardinality({j \in 1..Len(attempts) : attempts[j].backend = backend})

\* lazyGenerateCommitMessage was called and has returned
LazyReturned == pc = "exit" /\ diffResult = "returned" /\ diff # <<>>

\* C11: in every run each backend is called at most once (a failed backend is
\* never retried); and when the first configured backend failed and a second
\* one is configured, lazyGenerateCommitMessage returns only after exactly one
\* call to the first and exactly one call to the second.
C11_AtMostOnce ==
    /\ \A b \in Range(Backends) : CallsTo(b) <= 1
    /\ (/\ LazyReturned
        /\ Len(Configured) >= 2
        /\ \E j \in 1..Len(attempts) :
              attempts[j].backend = Configured[1] /\ attempts[j].err)
       => (CallsTo(Configured[1]) = 1 /\ CallsTo(Configured[2]) = 1)

\* without a Gemini key: Groq failed, OpenAI was called once and succeeded
C11_Witness ==
    /\ LazyReturned
    /\ Configured = <<"Groq", "OpenAI">>
    /\ Len(attempts) = 2
    /\ attempts[1].err
    /\ exitCode = 0

\* C12: lazyGenerateCommitMessage returns an error exactly when every backend
\* that has a credential was attempted and its attempt failed; when the
\* attempt of a configured backend succeeds, its message is returned.
C12_ErrorIffAllFail ==
    LazyReturned =>
        /\ (exitCode # 0) <=>
              \A b \in Range(Configured) :
                  \E j \in 1..Len(attempts) : attempts[j].backend = b /\ attempts[j].err
        /\ (exitCode # 0) => stderr \in {<<MsgAllFailed>>, <<MsgGenerate>>}
        /\ \A j \in 1..Len(attempts) :
              (IsConfigured(attempts[j].backend) /\ ~attempts[j].err)
                  => (exitCode = 0 /\ stdout = attempts[j].text)

\* Gemini and Groq have a credential and both failed: the run ends in the
\* error "all available APIs failed"
C12_Witness ==
    /\ LazyReturned
    /\ Configured = <<"Gemini", "Groq">>
    /\ Len(attempts) = 2
    /\ attempts[1].err /\ attempts[2].err
    /\ stderr = <<MsgAllFailed>>
    /\ exitCode = 1

\* C13: an attempt whose HTTP response has a status outside 200..299 is a
\* failed attempt, whatever its body holds: its body is never returned as the
\* commit message.
C13_Non2xxFails ==
    \A j \in 1..Len(attempts) :
        (~attempts[j].resp.doErr /\ attempts[j].resp.code \notin 200..299)
            => attempts[j].err

\* C15: nothing is printed before the process ends; when it ends with
\* generation succeeded, standard output is exactly the cleaned text of the
\* successful attempt, standard error is empty and the exit status is 0; when
\* it ends on a failure, standard output is empty, standard error holds a
\* diagnostic and the exit status is not 0.
C15_OutputAndExit ==
    /\ pc # "exit" => (stdout = <<>> /\ stderr = <<>> /\ exitCode = -1)
    /\ pc = "exit" =>
          IF attempts # <<>> /\ ~attempts[Len(attempts)].err
          THEN /\ stdout = PostProcess(attempts[Len(attempts)].resp.items[1][1])
               /\ stderr = <<>>
               /\ exitCode = 0
          ELSE /\ stdout = <<>>
               /\ Len(stderr) = 1
               /\ exitCode \notin {0, -1}

\* the process ended with the text of Groq printed, cleaned of the fence the
\* backend put around it
C15_Witness ==
    /\ pc = "exit"
    /\ exitCode = 0
    /\ Len(attempts) = 1
    /\ attempts[1].backend = "Groq"
    /\ stdout = <<"u", "p">>
    /\ attempts[1].resp.items[1][1] # stdout

-----------------------------------------------------------------------------
(* Properties of the functions called on their own *)

\* C14: the clean-up of a returned text (trim, remove the listed prefixes in
\* order, trim, remove one leading and one trailing fence, trim) is
\* idempotent: applied to its own result it changes nothing.
C14_PostProcessIdempotent ==
    (fn = "PostProcess" /\ out.done) => PostProcess(out.text) = out.text

\* sub occurs in s
Contains(s, sub) ==
    \E i \in 1..(Len(s) - Len(sub) + 1) : SubSeq(s, i, i + Len(sub) - 1) = sub

IsPlusLine(l) == Len(l) > 0 /\ l[1] = "+"

\* getAddedPatch returned a fragment for a readable file
AddedReturned == fn = "getAddedPatch" /\ out.done /\ ~out.flag

\* the content of the added file
AddedContent == ContentOf(work[arg])

\* the lines of the fragment ("\n" ends the fragment, so the last element of
\* Split is dropped), and its lines after the four header lines
AddedLines == LET ls == Split(out.text) IN SubSeq(ls, 1, Len(ls) - 1)
AddedBody == SubSeq(AddedLines, 5, Len(AddedLines))

PreviewWord == <<"(", "p", "r", "e", "v", "i", "e", "w", ")">>
TruncatedWord == <<"t", "r", "u", "n", "c", "a", "t", "e", "d">>

\* "@@ -0,0 +1,<n> @@"
AddedHunkHeader(n) ==
    <<"@", "@", " ", "-", "0", ",", "0", " ", "+", "1", ",">> \o Itoa(n) \o <<" ", "@", "@">>

\* C16: for an added file whose content is no longer than maxPreview, the
\* fragment of getAddedPatch has exactly one hunk; the count in its header is
\* the number of lines emitted after it, which is the number of "\n" of the
\* content plus one; every emitted line is a line of the content prefixed "+";
\* and the fragment has neither "(preview)" nor a truncation note.
C16_AddedWithinPreview ==
    (AddedReturned /\ Len(AddedContent) <= size) =>
        /\ SelectSeq(AddedLines, IsHunkHeader) = <<AddedBody[1]>>
        /\ AddedBody[1] = AddedHunkHeader(Len(AddedBody) - 1)
        /\ Len(AddedBody) - 1 = CountNL(AddedContent) + 1
        /\ Tail(AddedBody) = [k \in 1..Len(Split(AddedContent)) |->
                                 <<"+">> \o Split(AddedContent)[k]]
        /\ ~Contains(out.text, PreviewWord)
        /\ ~Contains(out.text, TruncatedWord)

\* the content "a\nb\n", exactly as long as maxPreview, was emitted
C16_Witness ==
    /\ AddedReturned
    /\ work[arg] = "lines"
    /\ size = Len(AddedContent)
    /\ Len(AddedBody) = 4

\* C17: for an added file whose content is longer than maxPreview, the "+"
\* lines of the fragment, joined by "\n", are the first maxPreview characters
\* of the content; the hunk header has the line count of the whole content and
\* the "(preview)" marker; and the note after the lines gives the length of
\* the whole content.
C17_AddedPreview ==
    (AddedReturned /\ Len(AddedContent) > size) =>
        LET plus == SelectSeq(Tail(AddedBody), IsPlusLine)
        IN  /\ AddedBody[1] = AddedHunkHeader(CountNL(AddedContent) + 1)
                                \o <<" ">> \o PreviewWord
            /\ JoinNL(Untag(plus)) = SubSeq(AddedContent, 1, size)
            /\ Tail(AddedBody)
                 = plus \o << <<>>,
                              <<".", ".", ".", " ", "(", "f", "i", "l", "e", " ">>
                              \o TruncatedWord \o <<",", " ", "t", "o", "t", "a", "l", " ">>
                              \o Itoa(Len(AddedContent))
                              \o <<" ", "c", "h", "a", "r", "a", "c", "t", "e", "r", "s", ")",
                                   " ", ".", ".", ".">> >>

\* the long content was previewed with the program's maxAddedFilePreview: the
\* preview ends inside the fourth line
C17_Witness ==
    /\ AddedReturned
    /\ work[arg] = "long"
    /\ size = maxAddedFilePreview
    /\ Len(SelectSeq(AddedBody, IsPlusLine)) = 4

\* the lines truncatePatch wrote (each was written with a "\n")
TruncatedLines == LET ls == Split(out.text) IN SubSeq(ls, 1, Len(ls) - 1)

\* the first two lines of the patch are the first lines of the output
KeepsFirstTwo ==
    LET n == IF Len(Split(arg)) < 2 THEN Len(Split(arg)) ELSE 2
    IN  Len(TruncatedLines) >= n /\ SubSeq(TruncatedLines, 1, n) = SubSeq(Split(arg), 1, n)

\* C18: for a patch longer than maxSize, the output of truncatePatch holds the
\* first two lines of the patch and every line of the patch that begins with
\* "@@", wherever it is in the patch.
C18_TruncateKeepsHunkHeaders ==
    (fn = "truncatePatch" /\ out.done /\ Len(arg) > size) =>
        /\ KeepsFirstTwo
        /\ SelectSeq(TruncatedLines, IsHunkHeader) = SelectSeq(Split(arg), IsHunkHeader)

-----------------------------------------------------------------------------
(* Further properties of the greedy variant *)

\* the tagged lines of the chunks before the k-th
TaggedBefore(k) == Concat([j \in 1..(k - 1) |-> chunks[j].lines])

\* oldStart and newStart of the k-th chunk are the 1-based positions of its
\* first line in the old and in the new line sequence
StartsAreOwn(k) ==
    /\ chunks[k].oldStart = Len(SelectSeq(TaggedBefore(k), IsOldSide)) + 1
    /\ chunks[k].newStart = Len(SelectSeq(TaggedBefore(k), IsNewSide)) + 1

\* oldLines and newLines of the k-th chunk count its lines on each side
CountsAreOwn(k) ==
    /\ chunks[k].oldLines = Len(SelectSeq(chunks[k].lines, IsOldSide))
    /\ chunks[k].newLines = Len(SelectSeq(chunks[k].lines, IsNewSide))

\* C19: in every chunk of diffLines the recorded ranges describe the chunk's
\* own lines: oldStart and newStart are the positions of its first line on
\* each side, oldLines is the number of its " " and "-" lines and newLines the
\* number of its " " and "+" lines.
C19_ChunkRanges ==
    \A k \in 1..Len(chunks) : StartsAreOwn(k) /\ CountsAreOwn(k)

\* C20: for an added path (the last-committed content is the empty string) the
\* fragment has one hunk whose tagged lines are the lines of the working
\* content, each prefixed "+": no "-" line and no context line.
C20_AddedAllPlus ==
    (gpc = "done" /\ oldContent = <<>>) =>
        /\ Len(chunks) = 1
        /\ chunks[1].lines = [k \in 1..Len(newLinesOf) |-> <<"+">> \o newLinesOf[k]]
        /\ SelectSeq(FragmentBody, IsBodyChange) \o SelectSeq(FragmentBody, IsBodyContext)
             = [k \in 1..Len(newLinesOf) |-> <<"+">> \o newLinesOf[k]]

-----------------------------------------------------------------------------
(* Further properties of the multi-backend variant *)

\* C21: an attempt whose text is empty after the clean-up (the first choice's
\* text is empty, blank, or only a code fence) is a failed attempt: a
\* successful return of generateCommitMessage or generateGeminiCommitMessage
\* is never the empty string.
C21_EmptyTextFails ==
    \A j \in 1..Len(attempts) : ~attempts[j].err => attempts[j].text # <<>>

\* C22: a path whose working-copy content cannot be read in the exclusion
\* check never makes getStagedDiff return an error: it is written as the
\* exclusion placeholder and the loop goes on with the remaining paths, so
\* that a document is returned only after every path was visited.
C22_UnreadableIsExcluded ==
    /\ \A k \in Visits :
          work[written[k].path] = "unreadable" =>
              /\ written[k].kind = "excluded"
              /\ TextWritten(k) = Placeholder(written[k].path)
              /\ (k = Len(written) => diffResult # "failed")
    /\ diffResult = "returned" => {written[k].path : k \in Visits} = DOMAIN status

\* the unreadable m.go was visited first and written as placeholder, then the
\* loop visited i.PNG, and the document was returned
C22_Witness ==
    /\ diffResult = "returned"
    /\ Len(written) = 2
    /\ written[1].path = PathGo
    /\ work[PathGo] = "unreadable"
    /\ status[PathGo] = "Added"
    /\ TextWritten(1) = Placeholder(PathGo)
    /\ written[2].path = PathPng

-----------------------------------------------------------------------------
(* Order and termination in the greedy variant *)

\* C23: diffLines emits a "+" line only when every old line has been emitted
\* already (as " " or "-"); so "+" lines are in the last chunk only, and no
\* context or "-" line follows a "+" line.
C23_AdditionsLast ==
    /\ \A i \in 1..Len(AllTagged) :
          AllTagged[i][1] = "+" =>
              /\ Len(SelectSeq(SubSeq(AllTagged, 1, i - 1), IsOldSide)) = Len(oldLinesOf)
              /\ \A j \in (i + 1)..Len(AllTagged) : AllTagged[j][1] = "+"
    /\ \A k \in 1..(Len(chunks) - 1) :
          \A i \in 1..Len(chunks[k].lines) : chunks[k].lines[i][1] # "+"

\* diffLines returned two chunks: the first deletes a line and matching
\* resumed, the second ends with an added line
C23_Witness ==
    /\ gpc = "done"
    /\ Len(chunks) = 2
    /\ \E i \in 1..Len(chunks[1].lines) : chunks[1].lines[i][1] = "-"
    /\ chunks[2].lines[1][1] = " "
    /\ chunks[2].lines[Len(chunks[2].lines)][1] = "+"

-----------------------------------------------------------------------------
(* Order of the diff document *)

\* the map iteration may visit p next
CanVisit(p) == pc = "range" /\ p \in remaining

\* the visit of p appends text to the document whatever else happens: p is
\* excluded, or it is an added file that can be read
WritesText(p) == shouldExcludeFile(p) \/ status[p] = "Added"

\* C24: for a fixed repository state getStagedDiff is deterministic, the
\* fragments and placeholders of the document are in the same order in every
\* run: the range loop never has the choice between two paths that both
\* contribute text to the document.
C24_DeterministicOrder ==
    \A p \in DOMAIN status, q \in DOMAIN status :
        (CanVisit(p) /\ CanVisit(q) /\ WritesText(p) /\ WritesText(q)) => p = q

-----------------------------------------------------------------------------
(* Credentials in the two-backend variant *)

\* the values of the credentials of the run
KeysOfRun == {env.GROQ_API_KEY, env.OPENAI_API_KEY} \ {""}

\* C25: in the two-backend variant the value of an API credential is never
\* written to standard output or to standard error (so standard output does
\* not depend on the values of the credentials).
C25_CredentialNotPrinted ==
    /\ \A i \in 1..Len(stdout) : stdout[i] \notin KeysOfRun
    /\ \A i \in 1..Len(stderr) : stderr[i] \notin KeysOfRun

-----------------------------------------------------------------------------
(* Termination of diffLines *)

\* every iteration of the outer loop so far consumed at least one line, so
\* there were at most len(oldLines) + len(newLines) of them
IterBound ==
    /\ iters <= oldIndex + newIndex
    /\ oldIndex <= Len(oldLinesOf)
    /\ newIndex <= Len(newLinesOf)

\* C26: diffLines terminates for every pair of old and new line sequences:
\* each iteration of its outer loop consumes at least one line of the old or
\* of the new side, so the number of iterations is at most
\* len(oldLines) + len(newLines), and the call returns.
C26_Terminates ==
    /\ []IterBound
    /\ [][DiffLinesIter => oldIndex' + newIndex' > oldIndex + newIndex]_vars
    /\ <>(gpc = "done")

\* diffLines returned after two iterations of its outer loop: the first
\* deleted a line, the second matched the rest
C26_Witness ==
    /\ gpc = "done"
    /\ iters = 2
    /\ Len(chunks) = 2
    /\ chunks[1].lines[1][1] = "-"

=============================================================================
